---- MODULE Spec2Model ----
(***************************************************************************)
(* install-sync: the git synchronisation of the tracking document.         *)
(*                                                                         *)
(* One machine (Local) is modelled in detail: its working tree, index,     *)
(* local branch, remote-tracking ref and the position of the running       *)
(* command inside GitManager.commit_changes / push_changes / pull_changes. *)
(* The other machine (Other) shares the remote branch and pushes to it     *)
(* between any two remote operations of the local machine.                 *)
(*                                                                         *)
(* A document is the set of package records of config.json; a commit is a  *)
(* number, tree[c] its document and anc[c] the commits reachable from it.  *)
(*                                                                         *)
(* Spec and FairSpec: the commands that commit and push.  RemoteSpec:      *)
(* add_remote on a fresh repository.  ReadSpec: sync and list on a machine *)
(* that commits without pushing.  DocSpec: the commands on the document    *)
(* itself, its records in full, and its writing to and reading from        *)
(* config.json.                                                            *)
(***************************************************************************)
EXTENDS Integers, Sequences, FiniteSets, TLC

\* ---- bounds ------------------------------------------------------------
MaxCommands == 3
MaxRemotePushes == 2

\* ---- vocabulary --------------------------------------------------------
Local == "B"
Other == "A"
Packages == {"git", "curl"}

\* what a conflicted merge leaves in config.json
ConflictMarkers == <<"<<<<<<<", ">>>>>>>">>

\* the substrings push_changes looks for in str(e).lower(); an error
\* message is modelled by the set of these substrings that occur in it
DivergenceWords == {"fetch first", "non-fast-forward", "rejected"}
AuthWords == {"403", "denied", "authentication failed", "unauthorized"}

VARIABLES
    wt,              \* config.json in the working tree
    index,           \* config.json as staged
    tree,            \* tree[c]: document of commit c
    anc,             \* anc[c]: commits reachable from c, c included
    localTip,        \* repo.head.commit of the local branch
    remoteTip,       \* tip of the branch on the shared remote
    trackTip,        \* repo.refs["origin/main"]
    git_auto_commit, \* config.git.auto_commit of the document
    git_auto_push,   \* config.git.auto_push of the document
    pc,              \* position of the running command
    cmd,             \* the running command
    cmdRetry,        \* repo setup is in its own pull-and-push-again branch
    gm,              \* GitManager.config of the running command
    commitState,     \* what commit_changes did in this command
    firstRes,        \* answer of the backend to the first origin.push
    retryRes,        \* answer of the backend to the retry origin.push
    verify,          \* result of the verification fetch
    nPush,           \* origin.push calls of this push_changes invocation
    nPull,           \* pull_changes calls of this push_changes invocation
    nFetch,          \* verification fetches of this push_changes invocation
    outcome,         \* branch in which push_changes ended
    raised,          \* push_changes left by an exception
    made,            \* commits created by repo.index.commit so far
    snap,            \* tips and commit count at the end of the last command
    nCmd,            \* commands run so far
    nRemote,         \* pushes of the other machine so far
    localBranch,     \* repo.heads["main"] exists
    tracking,        \* the local branch has a tracking branch
    remotes,         \* the remotes configured in the repository
    addCall,         \* the last call of add_remote and what it did
    readCmd,         \* the last sync or list command and how it ended
    config_file,     \* config.json as written by save_config
    saved,           \* the Config handed to the last save_config
    nDoc,            \* commands run on the document so far
    docCmd,          \* the last command on the document and what it loaded
    derived,         \* the machine profiles derived so far
    exitCode         \* exit status of the last commit-and-push command

vars == <<wt, index, tree, anc, localTip, remoteTip, trackTip,
          git_auto_commit, git_auto_push, pc, cmd, cmdRetry, gm,
          commitState, firstRes, retryRes, verify, nPush, nPull, nFetch,
          outcome, raised, made, snap, nCmd, nRemote,
          localBranch, tracking, remotes, addCall, readCmd,
          config_file, saved, nDoc, docCmd, derived, exitCode>>

callVars == <<firstRes, retryRes, verify, nPush, nPull, nFetch, outcome, raised>>

\* what pull_changes sets up on the local branch
branchVars == <<localBranch, tracking>>

\* state of the other operations, left alone by commit and push
docVars == <<config_file, saved, nDoc, docCmd>>

auxVars == <<remotes, addCall, readCmd, docVars, derived, exitCode>>

\* ---- the backend's answers to origin.push --------------------------------
Info(f) == [kind |-> "info", flags |-> f, msg |-> {}]
Raise(m) == [kind |-> "raise", flags |-> {}, msg |-> m]
EmptyInfo == [kind |-> "empty", flags |-> {}, msg |-> {}]
NoReport == [kind |-> "none", flags |-> {}, msg |-> {}]

Resp(c, a, r) == [cause |-> c, accepted |-> a, report |-> r]
NoRes == Resp("none", FALSE, NoReport)

\* Info(f): push_info[0] with the bits f among ERROR and REJECTED; EmptyInfo:
\* an empty push_info; Raise(m): origin.push raised GitCommandError with text m.
\* A permission refusal by the server comes as an error text or as a refused
\* ref, which sets ERROR; a non-fast-forward refusal sets REJECTED, with or
\* without ERROR; a push that went through can still raise on stderr output.
OkReports == {Info({}), EmptyInfo}
NoiseReports == {Raise({})}
NonFFReports == {Info({"REJECTED"}), Info({"ERROR", "REJECTED"}),
                 Raise({"rejected", "fetch first"}), Raise({"non-fast-forward"})}
AuthReports == {Raise({"403"}), Raise({"denied"}), Raise({"authentication failed"}),
                Raise({"unauthorized"}), Raise({"401"}),
                Raise({"rejected", "denied"}), Info({"ERROR"})}
OtherReports == {Raise({}), Info({"ERROR"})}

\* the remote accepts a push only as a fast-forward of its branch
PushResponses ==
    (IF remoteTip \in anc[localTip]
       THEN {Resp("ok", TRUE, r) : r \in OkReports}
            \cup {Resp("noise", TRUE, r) : r \in NoiseReports}
       ELSE {Resp("nonff", FALSE, r) : r \in NonFFReports})
    \cup {Resp("auth", FALSE, r) : r \in AuthReports}
    \cup {Resp("other", FALSE, r) : r \in OtherReports}

\* ---- repository helpers --------------------------------------------------
HeadTree == tree[localTip]

\* variant: the staged document is compared with the remote-tracking ref
\* instead of HEAD
is_dirty_vs_tracking(idx, work) == idx # tree[trackTip] \/ work # idx

is_dirty(idx, work) == idx # HeadTree \/ work # idx

\* config.json is the tracked file of the model; after `git add -A` no
\* file is left untracked
untracked_files(idx, work) == {}

Diverged == remoteTip \notin anc[localTip] /\ localTip \notin anc[remoteTip]

MergeDocs(a, b) == a \cup b

NewCommit == Len(tree) + 1

\* ---- classification inside push_changes ----------------------------------
\* the GitCommandError that reaches the handler of push_changes: raised by
\* origin.push itself, or by push_changes from the flags of push_info[0]
\* ("Push failed" for ERROR, tested first, "Push rejected" for REJECTED)
PushError(report) ==
    IF report.kind = "raise" THEN [err |-> TRUE, msg |-> report.msg]
    ELSE IF report.kind = "info" /\ "ERROR" \in report.flags
         THEN [err |-> TRUE, msg |-> {}]
    ELSE IF report.kind = "info" /\ "REJECTED" \in report.flags
         THEN [err |-> TRUE, msg |-> {"rejected"}]
    ELSE [err |-> FALSE, msg |-> {}]

\* the branch of the handler chosen from the text of the error
ErrorBranch(msg) ==
    IF msg \cap DivergenceWords # {} THEN "divergence"
    ELSE IF msg \cap AuthWords # {} THEN "auth"
    ELSE "verify"

\* the test made on the result of the retry push
RetryFailed(report) ==
    report.kind = "info" /\ report.flags \cap {"ERROR", "REJECTED"} # {}

\* variant: the push is forced, the remote branch is set to the local tip
push_forced(resp) ==
    IF resp.accepted \/ resp.cause = "nonff"
      THEN remoteTip' = localTip /\ trackTip' = localTip
      ELSE UNCHANGED <<remoteTip, trackTip>>

\* effect of origin.push on the remote branch and the remote-tracking ref
push(resp) ==
    IF resp.accepted
      THEN remoteTip' = localTip /\ trackTip' = localTip
      ELSE UNCHANGED <<remoteTip, trackTip>>

\* ---- initial state: after `repo setup`, one commit shared with the remote --
RepoInit ==
    /\ wt = {} /\ index = {}
    /\ tree = <<{}>> /\ anc = <<{1}>>
    /\ localTip = 1 /\ remoteTip = 1 /\ trackTip = 1
    /\ git_auto_commit \in BOOLEAN /\ git_auto_push \in BOOLEAN
    /\ pc = "idle" /\ cmd = "none" /\ cmdRetry = FALSE
    /\ gm = [auto_commit |-> TRUE, auto_push |-> TRUE]
    /\ commitState = "none"
    /\ firstRes = NoRes /\ retryRes = NoRes /\ verify = "none"
    /\ nPush = 0 /\ nPull = 0 /\ nFetch = 0
    /\ outcome = "none" /\ raised = FALSE
    /\ made = 0
    /\ snap = [valid |-> FALSE, l |-> 1, r |-> 1, made |-> 0]
    /\ nCmd = 0 /\ nRemote = 0

\* ---- the tracking document (models.Config) and config.json ---------------------
EmptyMap == [k \in {} |-> k]

\* Config(): no machine, no package list, GitConfig()
EmptyConfig ==
    [machines |-> EmptyMap, packages |-> EmptyMap,
     git |-> [auto_commit |-> TRUE, auto_push |-> TRUE]]

\* variant: the fraction of the second is not written
str_datetime_seconds(dt) == <<dt.sec>>

\* str(datetime), used by json.dump(default=str): "... HH:MM:SS", followed by
\* ".ffffff" only when the microsecond is not 0
str_datetime(dt) == IF dt.micro = 0 THEN <<dt.sec>> ELSE <<dt.sec, dt.micro>>

\* the datetime pydantic parses from that text
parse_datetime(text) ==
    [sec |-> text[1], micro |-> IF Len(text) = 1 THEN 0 ELSE text[2]]

\* Optional[str]: None is written as JSON null, a string as a JSON string
json_optional(v) ==
    IF v = <<>> THEN [type |-> "null", text |-> ""]
    ELSE [type |-> "string", text |-> v[1]]

parse_optional(j) == IF j.type = "null" THEN <<>> ELSE <<j.text>>

\* config.dict() written by json.dump(..., default=str)
json_dump(config) ==
    [machines |-> config.machines,
     packages |->
        [m \in DOMAIN config.packages |->
           [i \in 1..Len(config.packages[m]) |->
              [name |-> config.packages[m][i].name,
               package_manager |-> config.packages[m][i].package_manager,
               installed_at |-> str_datetime(config.packages[m][i].installed_at),
               version |-> json_optional(config.packages[m][i].version)]]],
     git |-> config.git]

\* Config(**data) of the parsed JSON
Config(data) ==
    [machines |-> data.machines,
     packages |->
        [m \in DOMAIN data.packages |->
           [i \in 1..Len(data.packages[m]) |->
              [name |-> data.packages[m][i].name,
               package_manager |-> data.packages[m][i].package_manager,
               installed_at |-> parse_datetime(data.packages[m][i].installed_at),
               version |-> parse_optional(data.packages[m][i].version)]]],
     git |-> data.git]

NoFile == [exists |-> FALSE, data |-> json_dump(EmptyConfig)]

save_config(config) == [exists |-> TRUE, data |-> json_dump(config)]

\* load_config on the file: Config() when config.json does not exist
load_config_file(file) == IF file.exists THEN Config(file.data) ELSE EmptyConfig

\* no command has run on the document
NoDocCmd ==
    [name |-> "none", machine |-> "none", package |-> "none",
     forced |-> FALSE, changed |-> {}]

NoAddCall == [n |-> 0, name |-> "none", url |-> "none", result |-> "none",
              did |-> "none", repeat |-> FALSE]
NoReadCmd == [name |-> "none", at |-> 0, all |-> FALSE, attempt |-> "none",
              branch |-> <<TRUE, TRUE>>, remote |-> 1, pull |-> "none",
              class |-> "none", loaded |-> "none", exit |-> 0, shown |-> {}]

\* the local branch exists and tracks origin/main, origin is configured
Init ==
    /\ RepoInit
    /\ localBranch = TRUE /\ tracking = TRUE
    /\ remotes = {[name |-> "origin", url |-> "https"]}
    /\ addCall = NoAddCall
    /\ readCmd = NoReadCmd
    /\ config_file = NoFile /\ saved = EmptyConfig /\ nDoc = 0
    /\ docCmd = NoDocCmd /\ derived = {} /\ exitCode = 0

ResetCall ==
    /\ firstRes' = NoRes /\ retryRes' = NoRes /\ verify' = "none"
    /\ nPush' = 0 /\ nPull' = 0 /\ nFetch' = 0
    /\ outcome' = "none" /\ raised' = FALSE

\* ---- commands -------------------------------------------------------------
\* install: the record is added and saved; then, when git operations are to
\* be performed, commit_changes and push_changes with config.git.  When the
\* package manager fails nothing is saved and the command exits with code 1
Install ==
    /\ pc = "idle" /\ nCmd < MaxCommands
    /\ ConflictMarkers \notin wt
    /\ \E p \in Packages, git \in BOOLEAN, installed \in BOOLEAN :
         /\ <<Local, p>> \notin wt
         /\ IF installed
              THEN /\ wt' = wt \cup {<<Local, p>>}
                   /\ snap' = [snap EXCEPT !.valid = FALSE]
                   /\ exitCode' = 0
                   /\ IF git
                        THEN /\ pc' = "commit" /\ cmd' = "install"
                             /\ gm' = [auto_commit |-> git_auto_commit,
                                       auto_push |-> git_auto_push]
                        ELSE UNCHANGED <<pc, cmd, gm>>
              ELSE /\ exitCode' = 1
                   /\ UNCHANGED <<wt, snap, pc, cmd, gm>>
    /\ nCmd' = nCmd + 1
    /\ UNCHANGED <<index, tree, anc, localTip, remoteTip, trackTip,
                   git_auto_commit, git_auto_push, cmdRetry, commitState,
                   made, nRemote>>
    /\ UNCHANGED <<callVars, branchVars, remotes, addCall, readCmd, docVars,
                   derived>>

\* repo setup run again on the existing tracking directory: its files
\* exist already, so it goes to commit_changes and push_changes with the
\* default GitConfig()
Setup ==
    /\ pc = "idle" /\ nCmd < MaxCommands
    /\ pc' = "commit" /\ cmd' = "setup"
    /\ gm' = [auto_commit |-> TRUE, auto_push |-> TRUE]
    /\ nCmd' = nCmd + 1
    /\ UNCHANGED <<wt, index, tree, anc, localTip, remoteTip, trackTip,
                   git_auto_commit, git_auto_push, cmdRetry, commitState,
                   made, snap, nRemote>>
    /\ exitCode' = 0
    /\ UNCHANGED <<callVars, branchVars, remotes, addCall, readCmd, docVars,
                   derived>>

\* variant: the commit is made without looking at is_dirty / untracked_files
commit_changes_unconditional ==
    /\ pc = "commit"
    /\ IF ~gm.auto_commit
         THEN /\ commitState' = "skipped"
              /\ UNCHANGED <<index, tree, anc, localTip, made>>
         ELSE /\ index' = wt
              /\ tree' = Append(tree, wt)
              /\ anc' = Append(anc, anc[localTip] \cup {NewCommit})
              /\ localTip' = NewCommit
              /\ made' = made + 1
              /\ commitState' = "committed"
    /\ pc' = "push"
    /\ UNCHANGED <<wt, remoteTip, trackTip, git_auto_commit, git_auto_push,
                   cmd, cmdRetry, gm, snap, nCmd, nRemote>>
    /\ UNCHANGED <<callVars, branchVars, auxVars>>

\* ---- GitManager.commit_changes ---------------------------------------------
commit_changes ==
    /\ pc = "commit"
    /\ IF ~gm.auto_commit
         THEN /\ commitState' = "skipped"
              /\ UNCHANGED <<index, tree, anc, localTip, made>>
         ELSE /\ index' = wt
              /\ IF is_dirty(wt, wt) \/ untracked_files(wt, wt) # {}
                   THEN /\ tree' = Append(tree, wt)
                        /\ anc' = Append(anc, anc[localTip] \cup {NewCommit})
                        /\ localTip' = NewCommit
                        /\ made' = made + 1
                        /\ commitState' = "committed"
                   ELSE /\ commitState' = "clean"
                        /\ UNCHANGED <<tree, anc, localTip, made>>
    /\ pc' = "push"
    /\ UNCHANGED <<wt, remoteTip, trackTip, git_auto_commit, git_auto_push,
                   cmd, cmdRetry, gm, snap, nCmd, nRemote>>
    /\ UNCHANGED <<callVars, branchVars, auxVars>>

\* variant: the push is made whatever auto_push says
PushFirst_ungated ==
    /\ pc = "push"
    /\ IF FALSE
         THEN /\ outcome' = "skipped" /\ pc' = "done"
              /\ UNCHANGED <<remoteTip, trackTip, firstRes, nPush, raised>>
         ELSE \E resp \in PushResponses :
              /\ push(resp)
              /\ firstRes' = resp
              /\ nPush' = nPush + 1
              /\ LET e == PushError(resp.report) IN
                 IF ~e.err
                   THEN outcome' = "pushed" /\ raised' = FALSE /\ pc' = "done"
                 ELSE IF ErrorBranch(e.msg) = "divergence"
                   THEN outcome' = outcome /\ raised' = FALSE /\ pc' = "pull"
                 ELSE IF ErrorBranch(e.msg) = "auth"
                   THEN outcome' = "auth-failed" /\ raised' = TRUE /\ pc' = "done"
                 ELSE outcome' = outcome /\ raised' = FALSE /\ pc' = "verify"
    /\ UNCHANGED <<wt, index, tree, anc, localTip, git_auto_commit,
                   git_auto_push, cmd, cmdRetry, gm, commitState, retryRes,
                   verify, nPull, nFetch, made, snap, nCmd, nRemote>>
    /\ UNCHANGED <<branchVars, auxVars>>

\* ---- GitManager.push_changes -------------------------------------------------
\* the first origin.push and the choice of the recovery branch
PushFirst ==
    /\ pc = "push"
    /\ IF ~gm.auto_push
         THEN /\ outcome' = "skipped" /\ pc' = "done"
              /\ UNCHANGED <<remoteTip, trackTip, firstRes, nPush, raised>>
         ELSE \E resp \in PushResponses :
              /\ push(resp)
              /\ firstRes' = resp
              /\ nPush' = nPush + 1
              /\ LET e == PushError(resp.report) IN
                 IF ~e.err
                   THEN outcome' = "pushed" /\ raised' = FALSE /\ pc' = "done"
                 ELSE IF ErrorBranch(e.msg) = "divergence"
                   THEN outcome' = outcome /\ raised' = FALSE /\ pc' = "pull"
                 ELSE IF ErrorBranch(e.msg) = "auth"
                   THEN outcome' = "auth-failed" /\ raised' = TRUE /\ pc' = "done"
                 ELSE outcome' = outcome /\ raised' = FALSE /\ pc' = "verify"
    /\ UNCHANGED <<wt, index, tree, anc, localTip, git_auto_commit,
                   git_auto_push, cmd, cmdRetry, gm, commitState, retryRes,
                   verify, nPull, nFetch, made, snap, nCmd, nRemote>>
    /\ UNCHANGED <<branchVars, auxVars>>

\* variant: a diverged local branch is reset to the fetched remote branch
pull_changes_reset(res) ==
    \/ /\ res = "error"
       /\ trackTip' \in {trackTip, remoteTip}
       /\ \/ UNCHANGED branchVars
          \/ /\ trackTip' = remoteTip /\ localBranch /\ ~tracking
             /\ localBranch' = TRUE /\ tracking' = TRUE
          \/ /\ trackTip' = remoteTip /\ ~localBranch /\ is_dirty(index, wt)
             /\ tree[remoteTip] # HeadTree
             /\ localBranch' = TRUE /\ tracking' = TRUE
       /\ UNCHANGED <<wt, index, tree, anc, localTip>>
    \/ /\ res = "ok" /\ ~localBranch
       /\ ~is_dirty(index, wt) \/ tree[remoteTip] = HeadTree
       /\ trackTip' = remoteTip
       /\ localBranch' = TRUE /\ tracking' = TRUE
       /\ localTip' = remoteTip
       /\ IF is_dirty(index, wt)
            THEN UNCHANGED <<wt, index>>
            ELSE wt' = tree[remoteTip] /\ index' = tree[remoteTip]
       /\ UNCHANGED <<tree, anc>>
    \/ /\ res = "ok" /\ localBranch /\ remoteTip \in anc[localTip]
       /\ trackTip' = remoteTip
       /\ localBranch' = TRUE /\ tracking' = TRUE
       /\ UNCHANGED <<wt, index, tree, anc, localTip>>
    \/ /\ res = "ok" /\ localBranch
       /\ localTip \in anc[remoteTip] /\ localTip # remoteTip
       /\ ~is_dirty(index, wt)
       /\ trackTip' = remoteTip
       /\ localBranch' = TRUE /\ tracking' = TRUE
       /\ localTip' = remoteTip
       /\ wt' = tree[remoteTip] /\ index' = tree[remoteTip]
       /\ UNCHANGED <<tree, anc>>
    \/ /\ res \in {"ok", "conflict"} /\ localBranch /\ Diverged
       /\ ~is_dirty(index, wt)
       /\ trackTip' = remoteTip
       /\ localBranch' = TRUE /\ tracking' = TRUE
       /\ localTip' = remoteTip
       /\ wt' = tree[remoteTip] /\ index' = tree[remoteTip]
       /\ UNCHANGED <<tree, anc>>

\* variant: no fetch before a missing branch is created, and an existing
\* branch is pulled without its tracking being set up
pull_changes_untracked(res) ==
    \/ /\ res = "error"
       /\ trackTip' \in {trackTip, remoteTip}
       /\ \/ UNCHANGED branchVars
          \/ /\ trackTip' = remoteTip /\ localBranch /\ ~tracking
             /\ localBranch' = TRUE /\ tracking' = TRUE
          \/ /\ trackTip' = remoteTip /\ ~localBranch /\ is_dirty(index, wt)
             /\ tree[remoteTip] # HeadTree
             /\ localBranch' = TRUE /\ tracking' = TRUE
       /\ UNCHANGED <<wt, index, tree, anc, localTip>>
    \/ /\ res = "ok" /\ ~localBranch
       /\ ~is_dirty(index, wt) \/ tree[remoteTip] = HeadTree
       /\ trackTip' = remoteTip
       /\ localBranch' = TRUE /\ tracking' = TRUE
       /\ localTip' = trackTip
       /\ IF is_dirty(index, wt)
            THEN UNCHANGED <<wt, index>>
            ELSE wt' = tree[trackTip] /\ index' = tree[trackTip]
       /\ UNCHANGED <<tree, anc>>
    \/ /\ res = "ok" /\ localBranch /\ remoteTip \in anc[localTip]
       /\ trackTip' = remoteTip
       /\ localBranch' = TRUE /\ tracking' = tracking
       /\ UNCHANGED <<wt, index, tree, anc, localTip>>
    \/ /\ res = "ok" /\ localBranch
       /\ localTip \in anc[remoteTip] /\ localTip # remoteTip
       /\ ~is_dirty(index, wt)
       /\ trackTip' = remoteTip
       /\ localBranch' = TRUE /\ tracking' = tracking
       /\ localTip' = remoteTip
       /\ wt' = tree[remoteTip] /\ index' = tree[remoteTip]
       /\ UNCHANGED <<tree, anc>>
    \/ /\ res = "ok" /\ localBranch /\ Diverged /\ ~is_dirty(index, wt)
       /\ trackTip' = remoteTip
       /\ localBranch' = TRUE /\ tracking' = tracking
       /\ tree' = Append(tree, MergeDocs(tree[localTip], tree[remoteTip]))
       /\ anc' = Append(anc, anc[localTip] \cup anc[remoteTip] \cup {NewCommit})
       /\ localTip' = NewCommit
       /\ wt' = MergeDocs(tree[localTip], tree[remoteTip])
       /\ index' = MergeDocs(tree[localTip], tree[remoteTip])
    \/ /\ res = "conflict" /\ localBranch /\ Diverged /\ ~is_dirty(index, wt)
       /\ trackTip' = remoteTip
       /\ localBranch' = TRUE /\ tracking' = tracking
       /\ wt' = MergeDocs(tree[localTip], tree[remoteTip]) \cup {ConflictMarkers}
       /\ UNCHANGED <<index, tree, anc, localTip>>

\* ---- GitManager.pull_changes ---------------------------------------------------
\* res is how pull_changes ends: "ok" (returns), "conflict" (GitCommandError
\* of a conflicting merge, re-raised) or "error" (any other exception of
\* origin.fetch, of the look-up of the remote ref, of the checkout or of
\* origin.pull).  localTip is the commit of HEAD: without a local branch
\* "main" it is the commit of the branch checked out instead.  A checkout or a
\* merge that would overwrite uncommitted changes of config.json is refused.
pull_changes(res) ==
    \/ /\ res = "error"
       /\ trackTip' \in {trackTip, remoteTip}
       /\ \/ UNCHANGED branchVars
          \/ /\ trackTip' = remoteTip /\ localBranch /\ ~tracking
             /\ localBranch' = TRUE /\ tracking' = TRUE
          \/ /\ trackTip' = remoteTip /\ ~localBranch /\ is_dirty(index, wt)
             /\ tree[remoteTip] # HeadTree
             /\ localBranch' = TRUE /\ tracking' = TRUE
       /\ UNCHANGED <<wt, index, tree, anc, localTip>>
    \/ /\ res = "ok" /\ ~localBranch
       /\ ~is_dirty(index, wt) \/ tree[remoteTip] = HeadTree
       /\ trackTip' = remoteTip
       /\ localBranch' = TRUE /\ tracking' = TRUE
       /\ localTip' = remoteTip
       /\ IF is_dirty(index, wt)
            THEN UNCHANGED <<wt, index>>
            ELSE wt' = tree[remoteTip] /\ index' = tree[remoteTip]
       /\ UNCHANGED <<tree, anc>>
    \/ /\ res = "ok" /\ localBranch /\ remoteTip \in anc[localTip]
       /\ trackTip' = remoteTip
       /\ localBranch' = TRUE /\ tracking' = TRUE
       /\ UNCHANGED <<wt, index, tree, anc, localTip>>
    \/ /\ res = "ok" /\ localBranch
       /\ localTip \in anc[remoteTip] /\ localTip # remoteTip
       /\ ~is_dirty(index, wt)
       /\ trackTip' = remoteTip
       /\ localBranch' = TRUE /\ tracking' = TRUE
       /\ localTip' = remoteTip
       /\ wt' = tree[remoteTip] /\ index' = tree[remoteTip]
       /\ UNCHANGED <<tree, anc>>
    \/ /\ res = "ok" /\ localBranch /\ Diverged /\ ~is_dirty(index, wt)
       /\ trackTip' = remoteTip
       /\ localBranch' = TRUE /\ tracking' = TRUE
       /\ tree' = Append(tree, MergeDocs(tree[localTip], tree[remoteTip]))
       /\ anc' = Append(anc, anc[localTip] \cup anc[remoteTip] \cup {NewCommit})
       /\ localTip' = NewCommit
       /\ wt' = MergeDocs(tree[localTip], tree[remoteTip])
       /\ index' = MergeDocs(tree[localTip], tree[remoteTip])
    \/ /\ res = "conflict" /\ localBranch /\ Diverged /\ ~is_dirty(index, wt)
       /\ trackTip' = remoteTip
       /\ localBranch' = TRUE /\ tracking' = TRUE
       /\ wt' = MergeDocs(tree[localTip], tree[remoteTip]) \cup {ConflictMarkers}
       /\ UNCHANGED <<index, tree, anc, localTip>>

PullResults == {"ok", "conflict", "error"}

\* divergence branch of push_changes: pull_changes, any exception of which
\* ends the invocation with "Sync and retry failed"
PullForRetry ==
    /\ pc = "pull"
    /\ \E res \in PullResults :
         /\ pull_changes(res)
         /\ IF res = "ok"
              THEN pc' = "retry" /\ outcome' = outcome
              ELSE pc' = "done" /\ outcome' = "sync-failed"
    /\ nPull' = nPull + 1
    /\ UNCHANGED <<remoteTip, git_auto_commit, git_auto_push, cmd, cmdRetry,
                   gm, commitState, firstRes, retryRes, verify, nPush, nFetch,
                   raised, made, snap, nCmd, nRemote>>
    /\ UNCHANGED auxVars

\* variant: a failed retry goes back to the pull
RetryPush_again ==
    /\ pc = "retry"
    /\ \E resp \in PushResponses :
         /\ push(resp)
         /\ retryRes' = resp
         /\ outcome' = IF resp.report.kind = "raise" THEN "sync-failed"
                       ELSE IF RetryFailed(resp.report) THEN "retry-failed"
                       ELSE "pushed-after-sync"
         /\ pc' = IF RetryFailed(resp.report) /\ nPull < 2 THEN "pull" ELSE "done"
    /\ nPush' = nPush + 1
    /\ UNCHANGED <<wt, index, tree, anc, localTip, git_auto_commit,
                   git_auto_push, cmd, cmdRetry, gm, commitState, firstRes,
                   verify, nPull, nFetch, raised, made, snap, nCmd, nRemote>>
    /\ UNCHANGED <<branchVars, auxVars>>

\* divergence branch of push_changes: the retry push and the test of its
\* result; nothing is raised from this branch
RetryPush ==
    /\ pc = "retry"
    /\ \E resp \in PushResponses :
         /\ push(resp)
         /\ retryRes' = resp
         /\ outcome' = IF resp.report.kind = "raise" THEN "sync-failed"
                       ELSE IF RetryFailed(resp.report) THEN "retry-failed"
                       ELSE "pushed-after-sync"
    /\ nPush' = nPush + 1
    /\ pc' = "done"
    /\ UNCHANGED <<wt, index, tree, anc, localTip, git_auto_commit,
                   git_auto_push, cmd, cmdRetry, gm, commitState, firstRes,
                   verify, nPull, nFetch, raised, made, snap, nCmd, nRemote>>
    /\ UNCHANGED <<branchVars, auxVars>>

\* variant: the comparison does not return, the warning is always reached
VerifyFetch_no_return ==
    /\ pc = "verify"
    /\ \E ok \in BOOLEAN :
         IF ok
           THEN /\ trackTip' = remoteTip
                /\ verify' = "ok"
                /\ outcome' = "unverified"
           ELSE /\ trackTip' = trackTip
                /\ verify' = "failed"
                /\ outcome' = "verify-failed"
    /\ nFetch' = nFetch + 1
    /\ pc' = "done"
    /\ UNCHANGED <<wt, index, tree, anc, localTip, remoteTip, git_auto_commit,
                   git_auto_push, cmd, cmdRetry, gm, commitState, firstRes,
                   retryRes, nPush, nPull, raised, made, snap, nCmd, nRemote>>
    /\ UNCHANGED <<branchVars, auxVars>>

\* last branch of push_changes: origin.fetch and the comparison of
\* repo.head.commit with repo.refs["origin/main"].commit
VerifyFetch ==
    /\ pc = "verify"
    /\ \E ok \in BOOLEAN :
         IF ok
           THEN /\ trackTip' = remoteTip
                /\ verify' = "ok"
                /\ outcome' = IF localTip = remoteTip THEN "verified"
                              ELSE "unverified"
           ELSE /\ trackTip' = trackTip
                /\ verify' = "failed"
                /\ outcome' = "verify-failed"
    /\ nFetch' = nFetch + 1
    /\ pc' = "done"
    /\ UNCHANGED <<wt, index, tree, anc, localTip, remoteTip, git_auto_commit,
                   git_auto_push, cmd, cmdRetry, gm, commitState, firstRes,
                   retryRes, nPush, nPull, raised, made, snap, nCmd, nRemote>>
    /\ UNCHANGED <<branchVars, auxVars>>

\* ---- back in the command ---------------------------------------------------------
EndCommand ==
    /\ pc' = "idle" /\ cmd' = "none" /\ cmdRetry' = FALSE
    /\ commitState' = "none"
    /\ snap' = [valid |-> commitState = "clean" /\ ~is_dirty(index', wt'),
                l |-> localTip', r |-> remoteTip, made |-> made]
    /\ ResetCall
    /\ UNCHANGED <<remoteTip, git_auto_commit, git_auto_push, gm, made,
                   nCmd, nRemote>>
    /\ UNCHANGED <<remotes, addCall, readCmd, docVars, derived>>
    /\ exitCode' = 0

\* variant: an exception of push_changes ends the command with exit code 1
Return_propagates ==
    /\ pc = "done"
    /\ ~(cmd = "setup" /\ raised /\ ~cmdRetry)
    /\ UNCHANGED <<wt, index, tree, anc, localTip, trackTip, branchVars>>
    /\ pc' = "idle" /\ cmd' = "none" /\ cmdRetry' = FALSE
    /\ commitState' = "none"
    /\ snap' = [valid |-> commitState = "clean" /\ ~is_dirty(index', wt'),
                l |-> localTip', r |-> remoteTip, made |-> made]
    /\ ResetCall
    /\ UNCHANGED <<remoteTip, git_auto_commit, git_auto_push, gm, made,
                   nCmd, nRemote>>
    /\ UNCHANGED <<remotes, addCall, readCmd, docVars, derived>>
    /\ exitCode' = IF raised THEN 1 ELSE 0

\* push_changes is back in install (an exception is caught and printed as
\* "Git operations failed") or in the second attempt of repo setup
Return ==
    /\ pc = "done"
    /\ ~(cmd = "setup" /\ raised /\ ~cmdRetry)
    /\ UNCHANGED <<wt, index, tree, anc, localTip, trackTip, branchVars>>
    /\ EndCommand

\* repo setup, when its push_changes raised: pull_changes, then push_changes
\* once more; an exception of either ends the command with a warning
SetupRecover ==
    /\ pc = "done"
    /\ cmd = "setup" /\ raised /\ ~cmdRetry
    /\ \E res \in PullResults :
         /\ pull_changes(res)
         /\ IF res = "ok"
              THEN /\ pc' = "push" /\ cmdRetry' = TRUE
                   /\ ResetCall
                   /\ UNCHANGED <<remoteTip, git_auto_commit, git_auto_push,
                                  cmd, gm, commitState, made, snap, nCmd,
                                  nRemote>>
                   /\ UNCHANGED auxVars
              ELSE EndCommand

\* ---- the other machine -------------------------------------------------------------
\* it is up to date with the remote, records one package and pushes; this
\* happens between two remote operations of the local machine (the return
\* of push_changes to its caller is not one)
OtherMachinePush ==
    /\ nRemote < MaxRemotePushes
    /\ pc # "done"
    /\ \E p \in Packages :
         /\ <<Other, p>> \notin tree[remoteTip]
         /\ tree' = Append(tree, tree[remoteTip] \cup {<<Other, p>>})
    /\ anc' = Append(anc, anc[remoteTip] \cup {NewCommit})
    /\ remoteTip' = NewCommit
    /\ nRemote' = nRemote + 1
    /\ snap' = [snap EXCEPT !.valid = FALSE]
    /\ UNCHANGED <<wt, index, localTip, trackTip, git_auto_commit,
                   git_auto_push, pc, cmd, cmdRetry, gm, commitState, made,
                   nCmd>>
    /\ UNCHANGED <<callVars, branchVars, auxVars>>

Next ==
    \/ Install
    \/ Setup
    \/ commit_changes
    \/ PushFirst
    \/ PullForRetry
    \/ RetryPush
    \/ VerifyFetch
    \/ Return
    \/ SetupRecover
    \/ OtherMachinePush

Spec == Init /\ [][Next]_vars

\* a command is one synchronous call chain: once started, each step of
\* push_changes is eventually taken
FairSpec ==
    Spec /\ WF_vars(PushFirst) /\ WF_vars(PullForRetry)
         /\ WF_vars(RetryPush) /\ WF_vars(VerifyFetch)

\* ---- GitManager.add_remote -------------------------------------------------------
MaxAddCalls == 3

RemoteNames == {"origin", "upstream"}
Urls == {"https", "ssh", "file"}

\* repo.remote(name): the configured remotes of that name; the look-up
\* raises when there is none
remote(name) == {r \in remotes : r.name = name}

\* `git remote add`: refused when a remote of that name exists
create_remote(name, url) ==
    IF remote(name) = {}
      THEN [ok |-> TRUE, remotes |-> remotes \cup {[name |-> name, url |-> url]}]
      ELSE [ok |-> FALSE, remotes |-> remotes]

\* `git remote set-url`: the URL of the existing remote is replaced
set_url(name, url) == (remotes \ remote(name)) \cup {[name |-> name, url |-> url]}

Called(name, url, result, did) ==
    [n |-> addCall.n + 1, name |-> name, url |-> url, result |-> result,
     did |-> did,
     repeat |-> addCall.result = "ok" /\ addCall.name = name /\ addCall.url = url]

\* variant: the remote is created without looking for an existing one
add_remote_always_create(name, url, git_ok) ==
    IF git_ok /\ create_remote(name, url).ok
      THEN /\ remotes' = create_remote(name, url).remotes
           /\ addCall' = Called(name, url, "ok", "created")
      ELSE /\ remotes' = remotes
           /\ addCall' = Called(name, url, "raised", "failed")

\* variant: an existing remote is accepted whatever its URL
add_remote_keep_url(name, url, git_ok) ==
    IF remote(name) # {}
      THEN /\ remotes' = remotes
           /\ addCall' = Called(name, url, "ok", "kept")
    ELSE IF git_ok /\ create_remote(name, url).ok
      THEN /\ remotes' = create_remote(name, url).remotes
           /\ addCall' = Called(name, url, "ok", "created")
      ELSE /\ remotes' = remotes
           /\ addCall' = Called(name, url, "raised", "failed")

\* git_ok: the git commands of this call work.  A failure of set_url is
\* swallowed by the inner handler and followed by create_remote, which git
\* refuses for the existing name: the GitCommandError is printed and re-raised.
add_remote(name, url, git_ok) ==
    IF remote(name) # {} /\ \A r \in remote(name) : r.url = url
      THEN /\ remotes' = remotes
           /\ addCall' = Called(name, url, "ok", "kept")
    ELSE IF remote(name) # {} /\ git_ok
      THEN /\ remotes' = set_url(name, url)
           /\ addCall' = Called(name, url, "ok", "updated")
    ELSE IF git_ok /\ create_remote(name, url).ok
      THEN /\ remotes' = create_remote(name, url).remotes
           /\ addCall' = Called(name, url, "ok", "created")
      ELSE /\ remotes' = remotes
           /\ addCall' = Called(name, url, "raised", "failed")

\* a call of add_remote on the repository, by repo setup, repo fix or any
\* other user of GitManager
AddRemote ==
    /\ addCall.n < MaxAddCalls
    /\ \E name \in RemoteNames, url \in Urls, git_ok \in BOOLEAN :
         add_remote(name, url, git_ok)
    /\ UNCHANGED <<wt, index, tree, anc, localTip, remoteTip, trackTip,
                   git_auto_commit, git_auto_push, pc, cmd, cmdRetry, gm,
                   commitState, made, snap, nCmd, nRemote, readCmd>>
    /\ UNCHANGED <<callVars, branchVars, docVars, derived, exitCode>>

\* the repository right after init_repo: no remote yet
RemoteInit ==
    /\ RepoInit
    /\ localBranch = TRUE /\ tracking = FALSE
    /\ remotes = {}
    /\ addCall = NoAddCall
    /\ readCmd = NoReadCmd
    /\ config_file = NoFile /\ saved = EmptyConfig /\ nDoc = 0
    /\ docCmd = NoDocCmd /\ derived = {} /\ exitCode = 0

RemoteNext == AddRemote

RemoteSpec == RemoteInit /\ [][RemoteNext]_vars

\* ---- sync and list ---------------------------------------------------------------
\* the exception that leaves pull_changes: its type and, of str(e).lower(),
\* the substrings the handler looks for ("conflict", "diverged")
GitCommandError(m) == [kind |-> "GitCommandError", msg |-> m]
NoException == [kind |-> "none", msg |-> {}]

\* origin.pull builds the text of its GitCommandError from the command line
\* and the error lines of git's stderr; git prints the CONFLICT lines of a
\* failed merge on stdout, so they may be missing from the text.  A missing
\* remote makes repo.remote raise ValueError, which the handler does not catch.
PullExceptions(res) ==
    IF res = "ok" THEN {NoException}
    ELSE IF res = "conflict"
      THEN {GitCommandError({}), GitCommandError({"conflict"})}
    ELSE {GitCommandError({}), GitCommandError({"diverged"}),
          [kind |-> "ValueError", msg |-> {}]}

\* the message pull_changes prints before it re-raises
PullClass(exc) ==
    IF exc.kind = "none" THEN "none"
    ELSE IF exc.kind # "GitCommandError" THEN "unclassified"
    ELSE IF "conflict" \in exc.msg THEN "conflict"
    ELSE IF "diverged" \in exc.msg THEN "diverged"
    ELSE "generic"

\* json.load of config.json fails on the markers of a conflicted merge
load_config(doc) == [ok |-> ConflictMarkers \notin doc, config |-> doc]

\* the rows list prints: the records of this machine, or of all machines
Shown(doc, all_machines) ==
    IF all_machines THEN doc ELSE {r \in doc : r[1] = Local}

\* the methods GitManager defines
GitManagerMethods ==
    {"repo", "is_git_repo", "init_repo", "add_remote", "commit_changes",
     "push_changes", "pull_changes", "get_status", "get_commit_history"}

\* git_manager.sync_before_operation("listing packages")
sync_before_operation ==
    IF "sync_before_operation" \in GitManagerMethods
      THEN "called" ELSE "AttributeError"

Read(name, all_machines, attempt, res, exc, loaded, code, rows) ==
    [name |-> name, at |-> nCmd + 1, all |-> all_machines, attempt |-> attempt,
     branch |-> <<localBranch, tracking>>, remote |-> remoteTip, pull |-> res,
     class |-> PullClass(exc), loaded |-> loaded, exit |-> code, shown |-> rows]

\* variant: a failed pull is printed and the command ends normally
sync_nonfatal ==
    /\ pc = "idle" /\ nCmd < MaxCommands
    /\ \E res \in PullResults :
         \E exc \in PullExceptions(res) :
           /\ pull_changes(res)
           /\ readCmd' = Read("sync", FALSE, "pull", res, exc, "none", 0, {})
    /\ nCmd' = nCmd + 1
    /\ snap' = [snap EXCEPT !.valid = FALSE]
    /\ UNCHANGED <<remoteTip, git_auto_commit, git_auto_push, pc, cmd, cmdRetry,
                   gm, commitState, made, nRemote, remotes, addCall>>
    /\ UNCHANGED <<callVars, docVars, derived, exitCode>>

\* the sync command in the repository: pull_changes, then load_config; any
\* exception is printed as "Sync failed" and the command exits with code 1
sync ==
    /\ pc = "idle" /\ nCmd < MaxCommands
    /\ \E res \in PullResults :
         \E exc \in PullExceptions(res) :
           /\ pull_changes(res)
           /\ readCmd' =
                IF res # "ok"
                  THEN Read("sync", FALSE, "pull", res, exc, "none", 1, {})
                ELSE IF load_config(wt').ok
                  THEN Read("sync", FALSE, "pull", res, exc, "ok", 0, {})
                  ELSE Read("sync", FALSE, "pull", res, exc, "failed", 1, {})
    /\ nCmd' = nCmd + 1
    /\ snap' = [snap EXCEPT !.valid = FALSE]
    /\ UNCHANGED <<remoteTip, git_auto_commit, git_auto_push, pc, cmd, cmdRetry,
                   gm, commitState, made, nRemote, remotes, addCall>>
    /\ UNCHANGED <<callVars, docVars, derived, exitCode>>

\* variant: the exception of the sync attempt ends the command
list_fatal ==
    /\ pc = "idle" /\ nCmd < MaxCommands
    /\ \E all_machines \in BOOLEAN :
         readCmd' =
           IF sync_before_operation = "AttributeError"
             THEN Read("list", all_machines, sync_before_operation, "none",
                       NoException, "none", 1, {})
           ELSE IF load_config(wt).ok
             THEN Read("list", all_machines, sync_before_operation, "none",
                       NoException, "ok", 0,
                       Shown(load_config(wt).config, all_machines))
             ELSE Read("list", all_machines, sync_before_operation, "none",
                       NoException, "failed", 1, {})
    /\ nCmd' = nCmd + 1
    /\ UNCHANGED <<wt, index, tree, anc, localTip, remoteTip, trackTip,
                   git_auto_commit, git_auto_push, pc, cmd, cmdRetry, gm,
                   commitState, made, snap, nRemote, remotes, addCall>>
    /\ UNCHANGED <<callVars, branchVars, docVars, derived, exitCode>>

\* the list command: the sync attempt inside `try ... except Exception: pass`
\* (the call of the undefined method raises AttributeError, nothing is
\* pulled), then load_config outside of it and the table of the records
list ==
    /\ pc = "idle" /\ nCmd < MaxCommands
    /\ \E all_machines \in BOOLEAN :
         readCmd' =
           IF load_config(wt).ok
             THEN Read("list", all_machines, sync_before_operation, "none",
                       NoException, "ok", 0,
                       Shown(load_config(wt).config, all_machines))
             ELSE Read("list", all_machines, sync_before_operation, "none",
                       NoException, "failed", 1, {})
    /\ nCmd' = nCmd + 1
    /\ UNCHANGED <<wt, index, tree, anc, localTip, remoteTip, trackTip,
                   git_auto_commit, git_auto_push, pc, cmd, cmdRetry, gm,
                   commitState, made, snap, nRemote, remotes, addCall>>
    /\ UNCHANGED <<callVars, branchVars, docVars, derived, exitCode>>

\* a machine whose document says auto_commit without auto_push: its commits
\* stay local until a sync; the branch "main" may be missing (HEAD is on the
\* branch of the initial commit) or lack its tracking branch
ReadInit ==
    /\ RepoInit
    /\ git_auto_commit = TRUE /\ git_auto_push = FALSE
    /\ localBranch \in BOOLEAN /\ tracking \in BOOLEAN
    /\ tracking => localBranch
    /\ remotes = {[name |-> "origin", url |-> "https"]}
    /\ addCall = NoAddCall
    /\ readCmd = NoReadCmd
    /\ config_file = NoFile /\ saved = EmptyConfig /\ nDoc = 0
    /\ docCmd = NoDocCmd /\ derived = {} /\ exitCode = 0

ReadNext ==
    \/ Install
    \/ commit_changes
    \/ PushFirst
    \/ Return
    \/ OtherMachinePush
    \/ sync
    \/ list

ReadSpec == ReadInit /\ [][ReadNext]_vars

\* ---- the commands on the document ----------------------------------------------------
MaxDocCommands == 3
MaxRecords == 2

Machines == {Local, Other}
Versions == {<<>>, <<"1.0">>, <<"2.0">>}
Times == {[sec |-> 1, micro |-> 0], [sec |-> 1, micro |-> 250]}

\* MachineProfile.create_current() on the machine of profile_id m
MachineProfile(m) ==
    [profile_id |-> m, machine_name |-> m, os_type |-> "linux",
     architecture |-> "x86_64"]

PackageInfo(name, version, now) ==
    [name |-> name, package_manager |-> "apt", installed_at |-> now,
     version |-> version]

\* variant: the machine is not entered in config.machines
set_machine_skipped(config, m) == config

\* config.machines[machine.profile_id] = machine
set_machine(config, m) ==
    [config EXCEPT !.machines = (m :> MachineProfile(m)) @@ @]

get_current_machine_packages(config, m) ==
    IF m \in DOMAIN config.packages THEN config.packages[m] ELSE <<>>

\* variant: no package is ever found recorded
is_package_installed_never(config, m, name) == FALSE

is_package_installed(config, m, name) ==
    \E i \in 1..Len(get_current_machine_packages(config, m)) :
        get_current_machine_packages(config, m)[i].name = name

\* variant: the record is put in front of the list
add_package_prepend(config, m, info) ==
    [config EXCEPT !.packages =
        IF m \in DOMAIN @ THEN [@ EXCEPT ![m] = <<info>> \o @]
        ELSE (m :> <<info>>) @@ @]

add_package(config, m, info) ==
    [config EXCEPT !.packages =
        IF m \in DOMAIN @ THEN [@ EXCEPT ![m] = Append(@, info)]
        ELSE (m :> <<info>>) @@ @]

\* the list of the machine without the records of that name
remove_package(config, m, name) ==
    [config EXCEPT !.packages[m] =
        SelectSeq(@, LAMBDA r : r.name # name)]

\* position of the first record of that name in the list of the machine
FirstIndex(config, m, name) ==
    CHOOSE i \in 1..Len(config.packages[m]) :
        /\ config.packages[m][i].name = name
        /\ \A j \in 1..(i - 1) : config.packages[m][j].name # name

\* variant: the upgraded record is moved to the end of the list
update_version_moved(config, m, name, version, now) ==
    [config EXCEPT !.packages[m] =
        Append(SelectSeq(@, LAMBDA r : r.name # name),
               [@[FirstIndex(config, m, name)] EXCEPT
                   !.version = version, !.installed_at = now])]

\* version and installed_at of the first record of that name are replaced
update_version(config, m, name, version, now) ==
    [config EXCEPT !.packages[m][FirstIndex(config, m, name)] =
        [@ EXCEPT !.version = version, !.installed_at = now]]

Save(config) ==
    /\ config_file' = save_config(config)
    /\ saved' = config

DocFrame ==
    /\ nDoc' = nDoc + 1
    /\ UNCHANGED <<wt, index, tree, anc, localTip, remoteTip, trackTip,
                   git_auto_commit, git_auto_push, pc, cmd, cmdRetry, gm,
                   commitState, made, snap, nCmd, nRemote, remotes, addCall,
                   readCmd>>
    /\ UNCHANGED <<callVars, branchVars, derived, exitCode>>

\* docCmd after a command has written config.json: the command, its
\* machine, the package it added or removed, the names it upgraded, and
\* whether --force has been used so far
Cmd(name, m, package, force, changed) ==
    [name |-> name, machine |-> m, package |-> package,
     forced |-> docCmd.forced \/ force, changed |-> changed]

\* the number of package records in the document
RECURSIVE NumRecords(_, _)
NumRecords(config, ms) ==
    IF ms = {} THEN 0
    ELSE LET m == CHOOSE x \in ms : TRUE IN
         Len(config.packages[m]) + NumRecords(config, ms \ {m})

\* the documents that have room for one more record
HasRoom(config) == NumRecords(config, DOMAIN config.packages) < MaxRecords

\* a command that returns without writing config.json
NoSave == UNCHANGED <<config_file, saved, docCmd>>

\* install on machine m: nothing is saved when the package is recorded
\* already (without --force) or when the package manager fails
DocInstall ==
    /\ nDoc < MaxDocCommands
    /\ \E m \in Machines, name \in Packages, force \in BOOLEAN :
         LET config == set_machine(load_config_file(config_file), m) IN
         IF ~force /\ is_package_installed(config, m, name)
           THEN NoSave
           ELSE \E installed \in BOOLEAN :
                  IF ~installed THEN NoSave
                  ELSE \E version \in Versions, now \in Times :
                         /\ HasRoom(config)
                         /\ docCmd' = Cmd("install", m, name, force, {})
                         /\ Save(add_package(config, m,
                                             PackageInfo(name, version, now)))
    /\ DocFrame

\* track on machine m: an already recorded package is left as it is
DocTrack ==
    /\ nDoc < MaxDocCommands
    /\ \E m \in Machines, name \in Packages :
         LET config == set_machine(load_config_file(config_file), m) IN
         IF is_package_installed(config, m, name)
           THEN NoSave
           ELSE \E version \in Versions, now \in Times :
                  /\ HasRoom(config)
                  /\ docCmd' = Cmd("track", m, name, FALSE, {})
                  /\ Save(add_package(config, m,
                                      PackageInfo(name, version, now)))
    /\ DocFrame

\* uninstall on machine m: the records of the package are removed and the
\* document saved when the package was recorded
DocUninstall ==
    /\ nDoc < MaxDocCommands
    /\ \E m \in Machines, name \in Packages, removed \in BOOLEAN :
         LET config == set_machine(load_config_file(config_file), m) IN
         IF removed /\ is_package_installed(config, m, name)
           THEN /\ docCmd' = Cmd("uninstall", m, name, FALSE, {})
                /\ Save(remove_package(config, m, name))
           ELSE NoSave
    /\ DocFrame

\* upgrade of one recorded package on machine m: saved when the version
\* reported by the package manager changed
DocUpgrade ==
    /\ nDoc < MaxDocCommands
    /\ \E m \in Machines, name \in Packages :
         LET config == set_machine(load_config_file(config_file), m) IN
         IF ~is_package_installed(config, m, name)
           THEN NoSave
           ELSE \/ NoSave
                \/ \E new_version \in Versions, now \in Times :
                     /\ \E old_version \in Versions :
                          old_version # new_version
                     /\ docCmd' = Cmd("upgrade", m, "none", FALSE, {name})
                     /\ Save(update_version(config, m, name,
                                             new_version, now))
    /\ DocFrame

\* the records of the names in names, one after the other
RECURSIVE update_versions(_, _, _, _, _)
update_versions(config, m, names, new_versions, now) ==
    IF names = {} THEN config
    ELSE LET name == CHOOSE n \in names : TRUE IN
         update_versions(
             update_version(config, m, name, new_versions[name], now),
             m, names \ {name}, new_versions, now)

\* upgrade of all recorded packages of machine m: changed are the recorded
\* names whose reported version differs after upgrade_all
DocUpgradeAll ==
    /\ nDoc < MaxDocCommands
    /\ \E m \in Machines, changed \in SUBSET Packages :
         LET config == set_machine(load_config_file(config_file), m) IN
         /\ \A name \in changed : is_package_installed(config, m, name)
         /\ IF changed # {}
              THEN \E new_versions \in [changed -> Versions], now \in Times :
                     /\ docCmd' = Cmd("upgrade", m, "none", FALSE, changed)
                     /\ Save(update_versions(config, m, changed,
                                              new_versions, now))
              ELSE NoSave
    /\ DocFrame

\* no config.json yet
DocInit ==
    /\ RepoInit
    /\ localBranch = TRUE /\ tracking = TRUE
    /\ remotes = {[name |-> "origin", url |-> "https"]}
    /\ addCall = NoAddCall
    /\ readCmd = NoReadCmd
    /\ config_file = NoFile /\ saved = EmptyConfig /\ nDoc = 0
    /\ docCmd = NoDocCmd /\ derived = {} /\ exitCode = 0

DocNext ==
    \/ DocInstall
    \/ DocTrack
    \/ DocUninstall
    \/ DocUpgrade
    \/ DocUpgradeAll

DocSpec == DocInit /\ [][DocNext]_vars

\* ---- the machine profile -----------------------------------------------------------
MaxDerivations == 3
IdLength == 8

\* strings as sequences of character codes
Nodes == {<<112, 99>>, <<109, 97, 99>>}
Systems == {<<76, 105, 110, 117, 120>>, <<68, 97, 114, 119, 105, 110>>}
Architectures == {<<120, 56, 54, 95, 54, 52>>, <<97, 114, 109, 54, 52>>}

\* what platform.node(), platform.system() and platform.machine() answer
Platforms == [node : Nodes, system : Systems, machine : Architectures]

\* the process that derives the id: the time of the call, its pid and the
\* value of an environment variable of that process
Processes ==
    {[time |-> t, pid |-> p, env |-> IF p = 1 THEN <<>> ELSE <<120>>] :
        t \in Times, p \in {1, 2}}

\* str.lower() on ASCII
lower(str) ==
    [i \in 1..Len(str) |-> IF str[i] \in 65..90 THEN str[i] + 32 ELSE str[i]]

\* f"{machine_name}_{os_type}_{architecture}".encode()
unique_str(machine_name, os_type, architecture) ==
    machine_name \o <<95>> \o os_type \o <<95>> \o architecture

HexDigits ==
    <<"0", "1", "2", "3", "4", "5", "6", "7",
      "8", "9", "a", "b", "c", "d", "e", "f">>

\* stand-in for the compression of hashlib.md5: a number that depends on
\* every byte of the input and on nothing else
RECURSIVE md5(_)
md5(bytes) ==
    IF bytes = <<>> THEN 5381
    ELSE (md5(SubSeq(bytes, 1, Len(bytes) - 1)) * 33 + bytes[Len(bytes)])
             % 65536

\* the 32 hexadecimal digits of the digest
hexdigest(bytes) ==
    [i \in 1..32 |-> HexDigits[(((md5(bytes) \div i) + 7 * i) % 16) + 1]]

\* variant: the time of the call goes into the hashed string
create_current_salted(platform, process) ==
    LET os_type == lower(platform.system)
        machine_name == platform.node
        architecture == platform.machine
    IN [profile_id |->
            SubSeq(hexdigest(unique_str(machine_name, os_type, architecture)
                             \o <<process.time.micro>>), 1, IdLength),
        machine_name |-> machine_name,
        os_type |-> os_type,
        architecture |-> architecture]

\* MachineProfile.create_current() in a process on a platform
create_current(platform, process) ==
    LET os_type == lower(platform.system)
        machine_name == platform.node
        architecture == platform.machine
    IN [profile_id |->
            SubSeq(hexdigest(unique_str(machine_name, os_type, architecture)),
                   1, IdLength),
        machine_name |-> machine_name,
        os_type |-> os_type,
        architecture |-> architecture]

\* one more call of create_current, in some process on some platform
Derive ==
    /\ Cardinality(derived) < MaxDerivations
    /\ \E platform \in Platforms, process \in Processes :
         derived' = derived \cup
             {[process |-> process,
               profile |-> create_current(platform, process)]}
    /\ UNCHANGED <<wt, index, tree, anc, localTip, remoteTip, trackTip,
                   git_auto_commit, git_auto_push, pc, cmd, cmdRetry, gm,
                   commitState, made, snap, nCmd, nRemote, remotes, addCall,
                   readCmd>>
    /\ UNCHANGED <<callVars, branchVars, docVars, exitCode>>

ProfileInit == DocInit /\ git_auto_commit /\ git_auto_push

ProfileNext == Derive

ProfileSpec == ProfileInit /\ [][ProfileNext]_vars

\* ---- properties ------------------------------------------------------------------------
InPushChanges == pc \in {"push", "pull", "retry", "verify"}

\* C1: whenever push_changes goes back to its caller without an exception
\* (as a successful push does), the remote branch tip is the local branch tip.
C1_AllFailuresReported ==
    [][(pc # "done" /\ pc' = "done" /\ gm.auto_push /\ ~raised')
          => remoteTip' = localTip']_vars

\* C2: a first push rejected as non-fast-forward is followed by pull_changes,
\* the pull by the retry push, and the retry push by the end of the
\* invocation: one pull, then exactly one retry.
C2_PullThenRetryOnce ==
    [][/\ (pc = "push" /\ pc' # "push" /\ firstRes'.cause = "nonff")
            => pc' = "pull"
       /\ (pc = "pull" /\ pc' # "pull") => (pc' = "retry" /\ nPull' = 1)
       /\ (pc = "retry" /\ pc' # "retry") => (pc' = "done" /\ nPush' = 2)]_vars

\* C3: when the retry result carries ERROR or REJECTED, push_changes ends in
\* diverged-unresolved, its caller gets the failure, and the invocation made
\* two pushes, one pull and no fetch.
C3_RetryFailureSurfaced ==
    (pc = "done" /\ RetryFailed(retryRes.report))
        => (outcome = "retry-failed" /\ raised
            /\ nPush = 2 /\ nPull = 1 /\ nFetch = 0)

\* C4: a first push that failed for authentication or permission ends the
\* invocation by an exception after one push, no pull and no fetch.
C4_AuthNeverRetried ==
    (pc = "done" /\ firstRes.cause = "auth")
        => (raised /\ outcome = "auth-failed"
            /\ nPush = 1 /\ nPull = 0 /\ nFetch = 0)

\* C5: a first push that failed for another reason (or succeeded with an
\* error reported) is followed by one verification fetch, no pull and no
\* second push; when the fetch worked, the invocation ends as verified, by
\* a normal return, exactly when the local tip is the fetched remote tip.
C5_VerifiedAfterAmbiguous ==
    (pc = "done" /\ firstRes.cause \in {"other", "noise"})
        => /\ nFetch = 1 /\ nPull = 0 /\ nPush = 1
           /\ verify = "ok" => (/\ outcome = "verified" <=> localTip = trackTip
                                /\ outcome = "verified" => ~raised)

C5_Witness ==
    pc = "done" /\ firstRes.cause = "noise" /\ verify = "ok"
    /\ outcome = "verified" /\ localTip = remoteTip

\* C6: when the verification could not show the tips equal, the caller of
\* push_changes gets the failure.
C6_UnverifiedFailureUnmasked ==
    (pc = "done" /\ verify # "none" /\ ~(verify = "ok" /\ localTip = trackTip))
        => raised

\* C7: an invocation of push_changes makes at most two pushes, one pull and
\* one verification fetch, and it ends.
C7_RecoveryAtMostOnce ==
    /\ [](nPush <= 2 /\ nPull <= 1 /\ nFetch <= 1)
    /\ (InPushChanges ~> pc = "done")

C7_Witness == pc = "done" /\ nPush = 2 /\ nPull = 1 /\ RetryFailed(retryRes.report)

\* C8: when the local machine committed a record and its first push was
\* rejected because the other machine pushed first, then, unless the merge
\* or the retry itself failed, the invocation pulled, pushed again with
\* success, and the remote document holds the records of both machines.
C8_BothRecordsOnRemote ==
    (pc = "done" /\ commitState = "committed" /\ firstRes.cause = "nonff"
     /\ outcome \notin {"sync-failed", "retry-failed"})
        => (nPull = 1 /\ nPush = 2 /\ outcome = "pushed-after-sync"
            /\ wt \subseteq tree[remoteTip]
            /\ \E p \in Packages : <<Other, p>> \in tree[remoteTip])

\* C9: commit_changes adds a commit exactly when, after staging, the
\* document differs from the one of HEAD; the new commit's document differs
\* from its parent's; otherwise tip and commit count are unchanged (clean).
C9_NoEmptyCommit ==
    [][(pc = "commit" /\ pc' = "push") =>
         /\ localTip' # localTip =>
              (/\ gm.auto_commit
               /\ tree'[localTip'] # tree[localTip]
               /\ Len(tree') = Len(tree) + 1 /\ made' = made + 1)
         /\ localTip' = localTip => (Len(tree') = Len(tree) /\ made' = made)
         /\ gm.auto_commit => (localTip' # localTip <=> wt # tree[localTip])
         /\ (gm.auto_commit /\ wt = tree[localTip]) => commitState' = "clean"]_vars

C9_Witness == pc = "push" /\ commitState = "clean" /\ localTip # remoteTip

C11_LocalCommitKept ==
    [][(InPushChanges \/ pc = "done") =>
          /\ anc[localTip] \subseteq anc'[localTip']
          /\ \A c \in anc[localTip] : tree'[c] = tree[c] /\ anc'[c] = anc[c]]_vars

\* a pushed-after-sync outcome whose pull merged a foreign commit with the
\* commit of commit_changes
C11_Witness ==
    /\ pc = "done" /\ commitState = "committed" /\ outcome = "pushed-after-sync"
    /\ Cardinality(anc[localTip]) >= 4

\* C12: add_remote is idempotent: a call that repeats the name and the URL of
\* the successful call before it succeeds and changes no remote, and exactly
\* one remote of that name, with that URL, is configured.
C12_AddRemoteIdempotent ==
    [][(addCall'.n = addCall.n + 1 /\ addCall'.repeat) =>
          /\ addCall'.result = "ok"
          /\ remotes' = remotes
          /\ {r \in remotes' : r.name = addCall'.name}
               = {[name |-> addCall'.name, url |-> addCall'.url]}]_vars

\* the second of two equal calls has returned
C12_Witness == addCall.repeat /\ addCall.n >= 2 /\ addCall.result = "ok"

\* C13: after a successful add_remote(name, url) exactly one remote called
\* name exists, its URL is url, and the remotes of other names are as before.
C13_AddRemoteEffect ==
    [][(addCall'.n = addCall.n + 1 /\ addCall'.result = "ok") =>
          /\ {r \in remotes' : r.name = addCall'.name}
               = {[name |-> addCall'.name, url |-> addCall'.url]}
          /\ {r \in remotes' : r.name # addCall'.name}
               = {r \in remotes : r.name # addCall'.name}]_vars

\* a remote was updated in place while another remote is configured
C13_Witness ==
    /\ addCall.result = "ok" /\ addCall.did = "updated"
    /\ Cardinality(remotes) = 2

\* a sync or list command has just run
ReadStep(name) == readCmd' # readCmd /\ readCmd'.name = name

\* C14: a successful pull_changes has fetched, leaves the local branch
\* existing and tracking origin/main; a missing branch is created from the
\* fetched remote branch and checked out; an existing branch, with or without
\* tracking before, has the remote branch merged into it.
C14_PullSetsUpBranch ==
    [][(ReadStep("sync") /\ readCmd'.pull = "ok") =>
          /\ trackTip' = remoteTip
          /\ localBranch' /\ tracking'
          /\ ~localBranch => localTip' = remoteTip /\ index' = tree[remoteTip]
          /\ localBranch => remoteTip \in anc'[localTip']]_vars

\* a branch without tracking was pulled and a foreign commit merged into it
C14_Witness ==
    /\ readCmd.name = "sync" /\ readCmd.pull = "ok"
    /\ readCmd.branch = <<TRUE, FALSE>>
    /\ tracking /\ Cardinality(anc[localTip]) >= 4

\* C15 (as claimed): a pull that failed on a merge conflict is reported and
\* classified as a conflict needing manual resolution.
C15_ConflictClassified ==
    (readCmd.name = "sync" /\ readCmd.pull = "conflict") =>
        readCmd.exit = 1 /\ readCmd.class = "conflict"

\* C16: the failure of the sync attempt of list is not fatal: list goes on
\* to load_config, shows the local document as it was, and its exit status
\* is that of the load alone.
C16_ListSyncNonFatal ==
    [][ReadStep("list") =>
          /\ readCmd'.loaded # "none"
          /\ readCmd'.exit = (IF load_config(wt).ok THEN 0 ELSE 1)
          /\ load_config(wt).ok => readCmd'.shown = Shown(wt, readCmd'.all)
          /\ wt' = wt]_vars

\* list has shown records after its sync attempt raised
C16_Witness ==
    /\ readCmd.name = "list" /\ readCmd.attempt = "AttributeError"
    /\ readCmd.exit = 0 /\ readCmd.shown # {}

\* C17 (as claimed): list of all machines shows every record that was on the
\* remote branch when it ran.
C17_ListShowsRemoteRecords ==
    (readCmd.name = "list" /\ readCmd.all /\ readCmd.exit = 0) =>
        tree[readCmd.remote] \subseteq readCmd.shown

\* C18: sync exits with code 1 whenever pull_changes fails, and with code 0
\* only after a successful pull and a successful reload of the document.
C18_SyncPullFailureFatal ==
    readCmd.name = "sync" =>
        /\ readCmd.pull # "ok" => readCmd.exit = 1
        /\ readCmd.exit = 0 => readCmd.pull = "ok" /\ readCmd.loaded = "ok"

\* a sync whose pull ended in a conflict
C18_Witness ==
    /\ readCmd.name = "sync" /\ readCmd.pull = "conflict"
    /\ ConflictMarkers \in wt

\* C19: in every document written to config.json by install, track,
\* uninstall and upgrade on any machines, starting from no document, every
\* profile_id that is a key of packages is a key of machines.
C19_PackagesKeysInMachines ==
    config_file.exists =>
        DOMAIN config_file.data.packages \subseteq DOMAIN config_file.data.machines

\* the written document holds package lists of two machines
C19_Witness ==
    config_file.exists /\ DOMAIN config_file.data.packages = Machines

\* C20: round trip: load_config of what save_config wrote is the document
\* that was saved: same machines, same package lists, records in the same
\* order with the same fields.
C20_RoundTrip ==
    config_file.exists => load_config_file(config_file) = saved

\* a saved list of two different records, one of them with a fraction of a
\* second and one without a version
C20_Witness ==
    /\ config_file.exists
    /\ \E m \in DOMAIN saved.packages :
         /\ Len(saved.packages[m]) >= 2
         /\ saved.packages[m][1].installed_at.micro # 0
         /\ saved.packages[m][2].version = <<>>

\* C21 (as claimed): a command whose load_config met a malformed config.json
\* goes on with the default document and does not end in a failure.
C21_MalformedLoadContinues ==
    readCmd.loaded = "failed" => readCmd.exit = 0

\* C23 (as claimed): a push result that carries the REJECTED flag is handled
\* as a rejection, that is by the pull-and-retry branch, whatever else the
\* result says.
C23_RejectedFlagIsRejection ==
    (nPush >= 1 /\ firstRes.report.kind = "info"
     /\ "REJECTED" \in firstRes.report.flags)
        => (pc = "pull" \/ nPull >= 1)

\* C24 (as claimed): once push_changes has ended in an authentication
\* failure, the command ends without any pull or further push.
C24_AuthNotRetriedByCommand ==
    [][(pc = "done" /\ outcome = "auth-failed") =>
          (pc' = "idle" /\ trackTip' = trackTip /\ localTip' = localTip
           /\ wt' = wt)]_vars

\* C27: the remote branch only moves forward: after every step, of this
\* machine or of the other one, its tip is the tip before or a descendant of
\* it, with the commits before unaltered; a pull that stops on a conflict
\* creates no commit and moves no branch.
C27_RemoteOnlyAdvances ==
    [][/\ remoteTip \in anc'[remoteTip']
       /\ \A c \in anc[remoteTip] : tree'[c] = tree[c] /\ anc'[c] = anc[c]
       /\ (ConflictMarkers \in wt' /\ ConflictMarkers \notin wt)
             => UNCHANGED <<tree, anc, localTip, remoteTip>>]_vars

\* this machine pushed after having merged commits the other machine had
\* pushed in between
C27_Witness ==
    /\ pc = "done" /\ outcome = "pushed-after-sync" /\ nRemote >= 1
    /\ remoteTip = localTip /\ Cardinality(anc[remoteTip]) >= 4

\* C29: with auto_commit false commit_changes stages nothing and creates no
\* commit; with auto_push false push_changes makes no push, pull or fetch
\* and leaves the local branch, the remote-tracking ref and the remote
\* branch as they were.
C29_PolicyGatesGit ==
    [][/\ (pc = "commit" /\ pc' # "commit" /\ ~gm.auto_commit)
            => UNCHANGED <<wt, index, tree, anc, localTip, made>>
       /\ (pc = "push" /\ pc' # "push" /\ ~gm.auto_push)
            => /\ UNCHANGED <<wt, index, tree, anc, localTip, remoteTip, trackTip>>
               /\ nPush' = 0 /\ nPull' = 0 /\ nFetch' = 0
               /\ pc' = "done"]_vars

\* a command ended with neither commit nor push, its change left unstaged
C29_Witness ==
    /\ pc = "done" /\ outcome = "skipped" /\ commitState = "skipped"
    /\ is_dirty(index, wt)

Range(seq) == {seq[i] : i \in 1..Len(seq)}

\* C25: on a document without a list for p, get_current_machine_packages(p) is
\* empty and no name is installed for p; add_package(p, r) makes r.name
\* installed for p, appends r as last element of the list of p and leaves the
\* lists of the other profile ids as they were.  Checked for every p and r
\* on every document the commands produce.
C25_AddPackageAppends ==
    \A p \in Machines, name \in Packages, version \in Versions, now \in Times :
        LET r == PackageInfo(name, version, now)
            after == add_package(saved, p, r)
        IN /\ p \notin DOMAIN saved.packages =>
                /\ Len(get_current_machine_packages(saved, p)) = 0
                /\ \A n \in Packages : ~is_package_installed(saved, p, n)
           /\ is_package_installed(after, p, r.name)
           /\ get_current_machine_packages(after, p)
                = Append(get_current_machine_packages(saved, p), r)
           /\ Len(get_current_machine_packages(after, p))
                = Len(get_current_machine_packages(saved, p)) + 1
           /\ \A q \in Machines \ {p} :
                /\ q \in DOMAIN after.packages <=> q \in DOMAIN saved.packages
                /\ get_current_machine_packages(after, q)
                     = get_current_machine_packages(saved, q)

\* a document in which one machine has two records and the other no list
C25_Witness ==
    /\ DOMAIN saved.packages # Machines
    /\ \E p \in DOMAIN saved.packages : Len(saved.packages[p]) = 2

\* C26: an upgrade leaves every list with its length and every record with
\* its name, manager and position; it changes at most the first record of
\* each name whose reported version changed, on the upgrading machine, and
\* nothing when no version changed.  Install, track and uninstall alter no
\* record: what they leave in a list was there before or is the record just
\* appended.
C26_RecordsImmutableButUpgrade ==
    [][LET b == saved.packages
           a == saved'.packages
           c == docCmd'
       IN /\ c.name = "upgrade" =>
               /\ DOMAIN a = DOMAIN b
               /\ a # b => c.changed # {}
               /\ \A m \in DOMAIN a :
                    /\ Len(a[m]) = Len(b[m])
                    /\ m # c.machine => a[m] = b[m]
                    /\ \A i \in 1..Len(a[m]) :
                         /\ a[m][i].name = b[m][i].name
                         /\ a[m][i].package_manager = b[m][i].package_manager
                         /\ a[m][i] # b[m][i] =>
                              /\ a[m][i].name \in c.changed
                              /\ \A j \in 1..(i - 1) :
                                   b[m][j].name # b[m][i].name
          /\ c.name \in {"install", "track", "uninstall"} =>
               \A m \in DOMAIN a : \A i \in 1..Len(a[m]) :
                   \/ m \in DOMAIN b /\ a[m][i] \in Range(b[m])
                   \/ /\ i = Len(a[m]) /\ m = c.machine
                      /\ a[m][i].name = c.package
      ]_vars

\* an upgrade has changed a record in a list of two
C26_Witness ==
    /\ docCmd.name = "upgrade" /\ docCmd.changed # {}
    /\ docCmd.machine \in DOMAIN saved.packages
    /\ Len(saved.packages[docCmd.machine]) = 2

NoDuplicateNames(config) ==
    \A m \in DOMAIN config.packages :
        \A i, j \in 1..Len(config.packages[m]) :
            config.packages[m][i].name = config.packages[m][j].name => i = j

\* C28: as long as no install was run with --force, no list holds two
\* records of the same name, and an install or track of a recorded name
\* leaves config.json as it was.
C28_NoDuplicateNames ==
    [][~docCmd'.forced =>
          /\ NoDuplicateNames(saved')
          /\ (/\ docCmd'.name \in {"install", "track"}
              /\ is_package_installed(saved, docCmd'.machine,
                                      docCmd'.package))
                => (config_file' = config_file /\ saved' = saved)
      ]_vars

\* an install or track of a name already recorded in a list of two
C28_Witness ==
    /\ ~docCmd.forced /\ docCmd.name \in {"install", "track"}
    /\ docCmd.machine \in DOMAIN saved.packages
    /\ Len(saved.packages[docCmd.machine]) = 2
    /\ nDoc = 3

\* the package records of the local machine in a working tree
LocalRecords(files) == {f \in files : f # ConflictMarkers /\ f[1] = Local}

\* C30: install writes the new record to the local document before its
\* first git operation; from there to the end of the command, whatever
\* commit_changes and push_changes do or raise, the records of the local
\* machine stay in the document and the command ends with exit code 0.
C30_RecordSurvivesGitFailure ==
    [][/\ (pc = "idle" /\ cmd' = "install") =>
            /\ LocalRecords(wt') # LocalRecords(wt)
            /\ pc' = "commit" /\ made' = made /\ nPush' = 0 /\ nPull' = 0
       /\ cmd = "install" =>
            /\ LocalRecords(wt) \subseteq LocalRecords(wt')
            /\ pc' = "idle" => exitCode' = 0
      ]_vars

\* push_changes has raised in an install whose record is in the document
C30_Witness ==
    /\ cmd = "install" /\ pc = "done" /\ raised
    /\ LocalRecords(wt) # {}

\* C22: the profile id is a function of the machine name, the os type and
\* the architecture alone: derivations with equal inputs have equal ids,
\* whatever the process, its time and its environment, and every id has
\* exactly 8 characters.
C22_ProfileIdDeterministic ==
    \A a, b \in derived :
        /\ Len(a.profile.profile_id) = IdLength
        /\ (/\ a.profile.machine_name = b.profile.machine_name
            /\ a.profile.os_type = b.profile.os_type
            /\ a.profile.architecture = b.profile.architecture)
              => a.profile.profile_id = b.profile.profile_id

\* the same machine derived in processes that differ in time, pid and
\* environment, and another machine with another id
C22_Witness ==
    \E a, b, c \in derived :
        /\ a.profile.machine_name = b.profile.machine_name
        /\ a.profile.os_type = b.profile.os_type
        /\ a.profile.architecture = b.profile.architecture
        /\ a.process.time # b.process.time
        /\ a.process.pid # b.process.pid
        /\ a.process.env # b.process.env
        /\ c.profile.profile_id # a.profile.profile_id

====
